---- MODULE Spec2Model ----
(***************************************************************************)
(* Model of the deck.gl dashboard entrypoints of va-ghg-dashboard:         *)
(*   simple variant   src/web/map.js    lines   1-141                      *)
(*   icon variant     src/web/map.js    lines 143-364                      *)
(*   masked variant   src/unnamed/part_000                                 *)
(*                                                                         *)
(* Conventions.  A JavaScript string is a sequence of one-character        *)
(* strings.  A JavaScript value is a tagged record: [t |-> "undef"],       *)
(* [t |-> "null"], [t |-> "nan"], [t |-> "num", n |-> i],                  *)
(* [t |-> "str", s |-> seq].  Degrees and zoom levels are fixed-point      *)
(* integers in hundredths (0.2 degrees is 20, zoom 7.1 is 710); emitted    *)
(* quantities are fixed-point integers in tenths of a ton.                 *)
(***************************************************************************)
EXTENDS Integers, Sequences, FiniteSets, TLC

VARIABLES
    subpartsIn,  \* raw value last handed to normalizeSubparts
    key,         \* canonical key it returned
    npc,         \* "init" before the call, "done" after it
    icons,       \* manifest.icons handed to buildFacilityIconResolver
    bySubparts,  \* lookup table captured by the resolver closure
    feature,     \* facility feature last handed to the resolver
    icon,        \* descriptor last returned by the resolver
    ipc,         \* position of the icon resolver: "init", "built", "resolved"
    proposed,    \* view state handed to clampToVirginia
    clampBounds, \* bounds array handed to clampToVirginia
    clampSource, \* which copy of clampToVirginia runs: "icon" or "masked"
    clamped,     \* view state it returned
    cpc,         \* "init" before the call, "done" after it
    variant,     \* entrypoint that runs: "simple", "masked" or "icon"
    maskExtension, \* whether deck.MaskExtension is defined
    pc,          \* position of the load sequence
    manifest,    \* parsed manifest, Undefined until it has loaded
    log,         \* steps of the load sequence taken so far, in order
    layers,      \* layer list handed to DeckGL, <<>> until composed
    deck,        \* "none" until new DeckGL(...) has returned, then "created"
    app,         \* content of the host region 'app': "empty", "map", "error"
    failure,     \* error caught by the sequence's catch block, "none" if none
    viewState,   \* view state the renderer holds
    uncaught,    \* an exception escaped from an engine callback
    loaded,      \* resources whose fetch has resolved and parsed in this cycle
    picked,      \* object of the pick handed to getTooltip
    pickedLayer, \* id of the layer of that pick
    tooltip,     \* what getTooltip returned
    tpc,         \* "init" before the call, "done" after it
    tons,        \* quantity handed to formatTons, in tenths of a ton
    tonsText,    \* text it returned
    fpc          \* "init" before the call, "done" after it

normVars == <<subpartsIn, key, npc>>
iconVars == <<icons, bySubparts, feature, icon, ipc>>
clampVars == <<proposed, clampBounds, clampSource, clamped, cpc>>

pageVars == <<variant, maskExtension, pc, manifest, log, layers, deck, app, failure,
              viewState, uncaught, loaded>>

tipVars == <<picked, pickedLayer, tooltip, tpc>>
fmtVars == <<tons, tonsText, fpc>>

vars == <<normVars, iconVars, clampVars, pageVars, tipVars, fmtVars>>

(***************************************************************************)
(* Bounds of the model.                                                    *)
(***************************************************************************)
MaxLen == 4          \* longest raw subparts string that is enumerated
MaxTenths == 120     \* quantities from -MaxTenths to MaxTenths tenths are enumerated
Reach == 1           \* proposed values lie up to Reach hundredths around each limit

(***************************************************************************)
(* JavaScript values.                                                      *)
(***************************************************************************)
Undefined == [t |-> "undef"]
Null == [t |-> "null"]
NaN == [t |-> "nan"]
JSNum(i) == [t |-> "num", n |-> i]
JSStr(seq) == [t |-> "str", s |-> seq]

\* ToBoolean, as used by `||` and by filter(Boolean)
Truthy(v) ==
    CASE v.t = "undef" -> FALSE
      [] v.t = "null" -> FALSE
      [] v.t = "nan" -> FALSE
      [] v.t = "num" -> v.n # 0
      [] v.t = "str" -> v.s # <<>>
      [] OTHER -> TRUE

\* a || b
OrElse(a, b) == IF Truthy(a) THEN a ELSE b

(***************************************************************************)
(* Strings.                                                                *)
(***************************************************************************)
\* UTF-16 code units of the characters that occur in the model
CharCode ==
    [ch \in {" ", ",", ".", "/", "0", "5", "C", "D", "c", "d", "m", "p", "g", "x"} |->
        CASE ch = " " -> 32 [] ch = "," -> 44 [] ch = "." -> 46 [] ch = "/" -> 47
          [] ch = "0" -> 48 [] ch = "5" -> 53
          [] ch = "C" -> 67 [] ch = "D" -> 68
          [] ch = "c" -> 99 [] ch = "d" -> 100 [] ch = "g" -> 103
          [] ch = "m" -> 109 [] ch = "p" -> 112 [] ch = "x" -> 120]

\* String.prototype.toUpperCase on one character
UpperChar(ch) ==
    CASE ch = "c" -> "C" [] ch = "d" -> "D" [] ch = "g" -> "G"
      [] ch = "m" -> "M" [] ch = "p" -> "P" [] ch = "x" -> "X"
      [] OTHER -> ch

toUpperCase(s) == [i \in 1..Len(s) |-> UpperChar(s[i])]

IsSpace(ch) == ch = " "

RECURSIVE trimStart(_)
trimStart(s) ==
    IF s # <<>> /\ IsSpace(Head(s)) THEN trimStart(Tail(s)) ELSE s

RECURSIVE trimEnd(_)
trimEnd(s) ==
    IF s # <<>> /\ IsSpace(s[Len(s)]) THEN trimEnd(SubSeq(s, 1, Len(s) - 1)) ELSE s

\* String.prototype.trim
trim(s) == trimEnd(trimStart(s))

\* String.prototype.split(','): always at least one part, "" for an empty field
RECURSIVE splitFrom(_, _)
splitFrom(s, cur) ==
    IF s = <<>> THEN <<cur>>
    ELSE IF Head(s) = "," THEN <<cur>> \o splitFrom(Tail(s), <<>>)
    ELSE splitFrom(Tail(s), Append(cur, Head(s)))

split(s) == splitFrom(s, <<>>)

\* Array.prototype.join(',')
RECURSIVE join(_)
join(parts) ==
    IF parts = <<>> THEN <<>>
    ELSE IF Len(parts) = 1 THEN parts[1]
    ELSE parts[1] \o <<",">> \o join(Tail(parts))

\* a < b in the code-unit order used by Array.prototype.sort()
RECURSIVE StrLess(_, _)
StrLess(a, b) ==
    IF b = <<>> THEN FALSE
    ELSE IF a = <<>> THEN TRUE
    ELSE IF Head(a) = Head(b) THEN StrLess(Tail(a), Tail(b))
    ELSE CharCode[Head(a)] < CharCode[Head(b)]

RECURSIVE insertSorted(_, _)
insertSorted(p, sorted) ==
    IF sorted = <<>> THEN <<p>>
    ELSE IF StrLess(p, Head(sorted)) THEN <<p>> \o sorted
    ELSE <<Head(sorted)>> \o insertSorted(p, Tail(sorted))

\* Array.prototype.reverse() in the place of sort()
RECURSIVE sort_reversed(_)
sort_reversed(parts) ==
    IF parts = <<>> THEN <<>> ELSE sort_reversed(Tail(parts)) \o <<Head(parts)>>

\* Array.prototype.sort() without comparator
RECURSIVE sort(_)
sort(parts) ==
    IF parts = <<>> THEN <<>> ELSE insertSorted(Head(parts), sort(Tail(parts)))

\* .filter(Boolean) on an array of strings
filterNonEmpty(parts) == SelectSeq(parts, LAMBDA p : p # <<>>)

\* String(v) for the truthy values that can reach it in normalizeSubparts:
\* a string is itself, the number 5 is "5"
JSString(v) == IF v.t = "str" THEN v.s ELSE <<"5">>

(***************************************************************************)
(* Icon resolver.                                                          *)
(***************************************************************************)
\* function normalizeSubparts(subparts)
normalizeSubparts(subparts) ==
    LET raw == JSString(OrElse(subparts, JSStr(<<>>)))
        parts == split(raw)
        mapped == [i \in 1..Len(parts) |-> toUpperCase(trim(parts[i]))]
    IN join(sort(filterNonEmpty(mapped)))

\* function iconNameToFile(iconName)
iconNameToFile(iconName) ==
    IF iconName.t # "str" \/ Len(iconName.s) = 0
    THEN <<"m", ".", "j">>                                \* 'manufacturing.jpg'
    ELSE IF \E i \in 1..Len(iconName.s) : iconName.s[i] = "."
         THEN iconName.s
         ELSE iconName.s \o <<".", "p">>                   \* `${iconName}.png`

\* Object.entries(bySubpartsRaw).forEach(...): later entries overwrite earlier
\* ones that normalize to the same key
RECURSIVE buildTable(_, _)
buildTable(entries, table) ==
    IF entries = <<>> THEN table
    ELSE LET k == normalizeSubparts(JSStr(entries[1].key))
             f == iconNameToFile(entries[1].icon)
         IN buildTable(Tail(entries),
                [x \in DOMAIN table \cup {k} |-> IF x = k THEN f ELSE table[x]])

EmptyTable == [x \in {} |-> <<>>]

\* manifest.icons || {} with its three optional fields
iconsBaseDir(cfg) ==
    IF cfg.t = "obj" /\ Truthy(cfg.base_dir) THEN cfg.base_dir.s ELSE <<"g">>   \* 'geo-icons'

bySubpartsRaw(cfg) == IF cfg.t = "obj" THEN cfg.by_subparts ELSE <<>>

defaultIconName(cfg) ==
    IF cfg.t = "obj" THEN OrElse(cfg.default, JSStr(<<"m">>)) ELSE JSStr(<<"m">>)

defaultIconFile(cfg) == iconNameToFile(defaultIconName(cfg))

\* the descriptor literal returned by the resolver
Descriptor(baseDir, iconFile) ==
    [url |-> <<".", ".", "/">> \o baseDir \o <<"/">> \o iconFile,
     width |-> 128, height |-> 128, anchorY |-> 128, mask |-> FALSE]

\* what a property read on undefined or null throws
TypeError == [t |-> "TypeError"]

\* feature?.properties?.subparts
featureSubparts(f) ==
    IF f.t # "obj" THEN Undefined
    ELSE IF f.properties.t # "obj" THEN Undefined
    ELSE f.properties.subparts

\* a resolver that looks the raw subparts up, without normalizing them
resolveIcon_rawLookup(cfg, table, f) ==
    LET sp == featureSubparts(f)
        k == JSString(OrElse(sp, JSStr(<<>>)))
        iconFile == IF k \in DOMAIN table /\ table[k] # <<>>
                    THEN table[k] ELSE defaultIconFile(cfg)
    IN IF sp = TypeError THEN TypeError
       ELSE Descriptor(iconsBaseDir(cfg), iconFile)

\* a resolver that sends an empty canonical key straight to the default
resolveIcon_emptyToDefault(cfg, table, f) ==
    LET sp == featureSubparts(f)
        k == normalizeSubparts(sp)
        iconFile == IF k # <<>> /\ k \in DOMAIN table /\ table[k] # <<>>
                    THEN table[k] ELSE defaultIconFile(cfg)
    IN IF sp = TypeError THEN TypeError
       ELSE Descriptor(iconsBaseDir(cfg), iconFile)

\* the closure (feature) => {...} returned by buildFacilityIconResolver
resolveIcon(cfg, table, f) ==
    LET sp == featureSubparts(f)
        k == normalizeSubparts(sp)
        iconFile == IF k \in DOMAIN table /\ table[k] # <<>>
                    THEN table[k] ELSE defaultIconFile(cfg)
    IN IF sp = TypeError THEN TypeError
       ELSE Descriptor(iconsBaseDir(cfg), iconFile)

(***************************************************************************)
(* Viewport constraint.                                                    *)
(***************************************************************************)
\* ToNumber, as applied by Math.max and Math.min to their arguments
ToNumber(v) ==
    CASE v.t = "num" -> v
      [] v.t = "null" -> JSNum(0)
      [] v.t = "str" -> IF v.s = <<>> THEN JSNum(0) ELSE NaN
      [] OTHER -> NaN

\* Math.max(a, b): NaN as soon as one argument converts to NaN
MathMax(a, b) ==
    LET x == ToNumber(a)
        y == ToNumber(b)
    IN IF x.t = "nan" \/ y.t = "nan" THEN NaN
       ELSE IF x.n >= y.n THEN x ELSE y

\* Math.min(a, b)
MathMin(a, b) ==
    LET x == ToNumber(a)
        y == ToNumber(b)
    IN IF x.t = "nan" \/ y.t = "nan" THEN NaN
       ELSE IF x.n <= y.n THEN x ELSE y

\* a clamp that applies the two limits the wrong way round
clamp_swapped(value, min, max) == MathMax(max, MathMin(min, value))

\* const clamp = (value, min, max) => Math.min(max, Math.max(min, value))
clamp(value, min, max) == MathMin(max, MathMax(min, value))

\* the literals of the two copies of clampToVirginia, in hundredths:
\* pad 0.2 and zoom 7.1..11.5 (icon variant), pad 0.4 and zoom 6..11 (masked)
ClampProfile(source) ==
    IF source = "icon"
    THEN [pad |-> 20, minZoom |-> 710, maxZoom |-> 1150]
    ELSE [pad |-> 40, minZoom |-> 600, maxZoom |-> 1100]

\* a clampToVirginia that also levels the camera: pitch: 0 after the spread
clampToVirginia_resetPitch(source, next, bounds) ==
    LET minLon == bounds[1]
        minLat == bounds[2]
        maxLon == bounds[3]
        maxLat == bounds[4]
        pr == ClampProfile(source)
    IN [next EXCEPT
          !.longitude = clamp(next.longitude,
                              JSNum(minLon - pr.pad), JSNum(maxLon + pr.pad)),
          !.latitude = clamp(next.latitude,
                             JSNum(minLat - pr.pad), JSNum(maxLat + pr.pad)),
          !.zoom = clamp(next.zoom, JSNum(pr.minZoom), JSNum(pr.maxZoom)),
          !.pitch = JSNum(0)]

\* function clampToVirginia(viewState, bounds), viewState being next; bounds is
\* <<minLon, minLat, maxLon, maxLat>>
clampToVirginia(source, next, bounds) ==
    LET minLon == bounds[1]
        minLat == bounds[2]
        maxLon == bounds[3]
        maxLat == bounds[4]
        pr == ClampProfile(source)
    IN [next EXCEPT
          !.longitude = clamp(next.longitude,
                              JSNum(minLon - pr.pad), JSNum(maxLon + pr.pad)),
          !.latitude = clamp(next.latitude,
                             JSNum(minLat - pr.pad), JSNum(maxLat + pr.pad)),
          !.zoom = clamp(next.zoom, JSNum(pr.minZoom), JSNum(pr.maxZoom))]

(***************************************************************************)
(* Tooltip.  formatTons and getTooltip read the same in the three          *)
(* entrypoints.                                                            *)
(***************************************************************************)
DigitChar == <<"0", "1", "2", "3", "4", "5", "6", "7", "8", "9">>

\* decimal digits of a natural number
RECURSIVE Digits(_)
Digits(n) ==
    IF n < 10 THEN <<DigitChar[n + 1]>>
    ELSE Append(Digits(n \div 10), DigitChar[(n % 10) + 1])

\* en-US grouping: a comma before every group of three digits
RECURSIVE Grouped(_)
Grouped(ds) ==
    IF Len(ds) <= 3 THEN ds
    ELSE Grouped(SubSeq(ds, 1, Len(ds) - 3)) \o <<",">> \o SubSeq(ds, Len(ds) - 2, Len(ds))

\* Number.prototype.toLocaleString('en-US', {maximumFractionDigits: 0}) of a
\* number given in tenths: half-expand rounding of the magnitude, the sign
\* kept, NaN as "NaN"
toLocaleString(x) ==
    IF x.t = "nan" THEN <<"NaN">>
    ELSE LET mag == IF x.n < 0 THEN 0 - x.n ELSE x.n
             body == Grouped(Digits((mag + 5) \div 10))
         IN IF x.n < 0 THEN <<"-">> \o body ELSE body

\* a formatTons that cuts the fraction off instead of rounding
formatTons_truncated(value) ==
    LET x == ToNumber(OrElse(value, JSNum(0)))
    IN IF x.t = "nan" THEN <<"NaN">>
       ELSE LET mag == IF x.n < 0 THEN 0 - x.n ELSE x.n
                body == Grouped(Digits(mag \div 10))
            IN IF x.n < 0 THEN <<"-">> \o body ELSE body

\* function formatTons(value)
formatTons(value) == toLocaleString(ToNumber(OrElse(value, JSNum(0))))

\* a getTooltip that reads object.properties without the `|| {}` fallback
getTooltip_noFallback(object, layerId) ==
    IF ~Truthy(object) THEN Null
    ELSE IF layerId = "ghg-facilities"
    THEN IF object.properties.t # "obj" THEN TypeError
         ELSE [t |-> "html",
               html |-> << "<strong>",
                           JSString(OrElse(object.properties.facility_name,
                                              JSStr(<<"Facility">>))),
                           "</strong><br/>Subparts: ",
                           JSString(OrElse(object.properties.subparts, JSStr(<<"N/A">>))),
                           "<br/>GHG: ",
                           formatTons(object.properties.ghg_quantity_metric_tons_co2e),
                           " tCO2e" >>]
    ELSE [t |-> "text", text |-> layerId]

NoProps ==
    [t |-> "obj", facility_name |-> Undefined, subparts |-> Undefined,
     ghg_quantity_metric_tons_co2e |-> Undefined]

\* getTooltip: ({object, layer}) => ...
getTooltip(object, layerId) ==
    IF ~Truthy(object) THEN Null
    ELSE IF layerId = "ghg-facilities"
    THEN LET props == IF Truthy(object.properties) THEN object.properties ELSE NoProps
         IN [t |-> "html",
             html |-> << "<strong>",
                         JSString(OrElse(props.facility_name, JSStr(<<"Facility">>))),
                         "</strong><br/>Subparts: ",
                         JSString(OrElse(props.subparts, JSStr(<<"N/A">>))),
                         "<br/>GHG: ",
                         formatTons(props.ghg_quantity_metric_tons_co2e),
                         " tCO2e" >>]
    ELSE [t |-> "text", text |-> layerId]

(***************************************************************************)
(* Layer composition.  A layer is the constructor name and the properties  *)
(* that order, clip or pick; data is a path of the manifest or the         *)
(* features fetched beforehand.                                            *)
(***************************************************************************)
\* `../${manifest.files.<name>}`: the text "undefined" when the key is missing
FileUrl(m, name) ==
    [t |-> "url",
     path |-> IF name \in m.files.keys THEN <<"..", name>> ELSE <<"..", "undefined">>]

Prefetched(name) == [t |-> "features", of |-> name]

Layer(type, id, data) ==
    [type |-> type, id |-> id, data |-> data, operation |-> "draw",
     pickable |-> FALSE, maskId |-> "", extensions |-> <<>>, bounds |-> Undefined]

\* overlays that list the railroads before the pipelines
Overlays_railroadsFirst(m) ==
    << Layer("GeoJsonLayer", "railroads", FileUrl(m, "railroads")),
       Layer("GeoJsonLayer", "pipelines", FileUrl(m, "pipelines")),
       Layer("GeoJsonLayer", "primary-roads", FileUrl(m, "primary_roads")),
       Layer("GeoJsonLayer", "incorporated-places", FileUrl(m, "incorporated_places")),
       [Layer("GeoJsonLayer", "ports", FileUrl(m, "principal_ports"))
            EXCEPT !.pickable = TRUE] >>

\* the five overlays every entrypoint lists after the boundary outline
Overlays(m) ==
    << Layer("GeoJsonLayer", "pipelines", FileUrl(m, "pipelines")),
       Layer("GeoJsonLayer", "railroads", FileUrl(m, "railroads")),
       Layer("GeoJsonLayer", "primary-roads", FileUrl(m, "primary_roads")),
       Layer("GeoJsonLayer", "incorporated-places", FileUrl(m, "incorporated_places")),
       [Layer("GeoJsonLayer", "ports", FileUrl(m, "principal_ports"))
            EXCEPT !.pickable = TRUE] >>

\* const layers = [...] of the simple variant
layersSimple(m) ==
    << [Layer("TerrainLayer", "terrain", Undefined) EXCEPT !.operation = "terrain+draw"],
       Layer("GeoJsonLayer", "boundary", FileUrl(m, "boundary")) >>
    \o Overlays(m)
    \o << [Layer("ScatterplotLayer", "ghg-facilities", FileUrl(m, "ghg"))
            EXCEPT !.pickable = TRUE] >>

\* const layers = [...] of the masked scatterplot variant
layersMasked(m) ==
    << [Layer("GeoJsonLayer", "va-mask", FileUrl(m, "boundary")) EXCEPT !.operation = "mask"],
       [Layer("TerrainLayer", "terrain", Undefined)
            EXCEPT !.operation = "terrain+draw", !.maskId = "va-mask",
                   !.bounds = m.bounds],
       Layer("GeoJsonLayer", "boundary", FileUrl(m, "boundary")) >>
    \o Overlays(m)
    \o << [Layer("ScatterplotLayer", "ghg-facilities", Prefetched("ghg"))
            EXCEPT !.pickable = TRUE] >>

\* an icon variant that lists the terrain before the mask that clips it
layersIcon_terrainFirst(m, ext) ==
    << [Layer("TerrainLayer", "terrain", Undefined)
            EXCEPT !.operation = "terrain+draw", !.maskId = "va-mask",
                   !.bounds = m.bounds,
                   !.extensions = IF ext THEN <<"MaskExtension">> ELSE <<>>],
       [Layer("GeoJsonLayer", "va-mask", Prefetched("boundary")) EXCEPT !.operation = "mask"],
       Layer("GeoJsonLayer", "boundary", Prefetched("boundary")) >>
    \o Overlays(m)
    \o << [Layer("IconLayer", "ghg-facilities", Prefetched("ghg"))
            EXCEPT !.pickable = TRUE] >>

\* const layers = [...] of the icon variant; ext: MaskExtension is defined
layersIcon(m, ext) ==
    << [Layer("GeoJsonLayer", "va-mask", Prefetched("boundary")) EXCEPT !.operation = "mask"],
       [Layer("TerrainLayer", "terrain", Undefined)
            EXCEPT !.operation = "terrain+draw", !.maskId = "va-mask",
                   !.bounds = m.bounds,
                   !.extensions = IF ext THEN <<"MaskExtension">> ELSE <<>>],
       Layer("GeoJsonLayer", "boundary", Prefetched("boundary")) >>
    \o Overlays(m)
    \o << [Layer("IconLayer", "ghg-facilities", Prefetched("ghg"))
            EXCEPT !.pickable = TRUE] >>

\* the layer list of the entrypoint that runs
composeLayers(v, m, ext) ==
    CASE v = "simple" -> layersSimple(m)
      [] v = "masked" -> layersMasked(m)
      [] OTHER -> layersIcon(m, ext)

\* const viewState = {...} of each entrypoint; the icon variant leaves the
\* bearing literal incomplete, so its bearing b is whatever the build supplies
initialViewState(v, m, b) ==
    LET lon == JSNum(m.center.a[1])
        lat == JSNum(m.center.a[2])
    IN CASE v = "simple" ->
            [longitude |-> lon, latitude |-> lat, zoom |-> JSNum(635),
             minZoom |-> JSNum(500), maxZoom |-> JSNum(1600),
             pitch |-> JSNum(4500), bearing |-> JSNum(1800)]
         [] v = "masked" ->
            [longitude |-> lon, latitude |-> lat, zoom |-> JSNum(700),
             minZoom |-> JSNum(600), maxZoom |-> JSNum(1100),
             pitch |-> JSNum(4500), bearing |-> JSNum(1800)]
         [] OTHER ->
            [longitude |-> lon, latitude |-> lat, zoom |-> JSNum(740),
             minZoom |-> JSNum(710), maxZoom |-> JSNum(1150),
             pitch |-> JSNum(0), bearing |-> JSNum(b)]

\* whether new DeckGL({...}) is given an onViewStateChange callback
hasOnViewStateChange(v) == v \in {"masked", "icon"}

(***************************************************************************)
(* Inputs of the icon resolver.                                            *)
(***************************************************************************)
SubpartChars == {"c", "C", "D", ",", " "}

Strings(n) == UNION {[1..k -> SubpartChars] : k \in 0..n}

\* properties.subparts: missing, null, numeric or any short string
SubpartValues ==
    {Undefined, Null, JSNum(0), JSNum(5)} \cup {JSStr(s) : s \in Strings(MaxLen)}

\* a facility feature: absent, without properties, or with a subparts value
FeatureSet ==
    {Undefined, Null, [t |-> "obj", properties |-> Undefined],
     [t |-> "obj", properties |-> Null]}
    \cup {[t |-> "obj", properties |-> [t |-> "obj", subparts |-> v]] : v \in SubpartValues}

\* raw by_subparts keys: two spellings of one key, a single part, an empty key
ConfigKeys == {<<"D", ",", "c">>, <<"c", ",", " ", "D">>, <<"C">>, <<",">>}

\* icon names: without a dot, with a dot, empty, not a string
ConfigIconNames == {JSStr(<<"p">>), JSStr(<<"x", ".", "g">>), JSStr(<<>>), JSNum(5)}

ConfigEntries == [key : ConfigKeys, icon : ConfigIconNames]

\* by_subparts in Object.entries order; the keys of an object are distinct,
\* and two entries are given different icons so that they can be told apart
BySubpartsSet ==
    {<<>>} \cup {<<e>> : e \in ConfigEntries}
    \cup {p \in ConfigEntries \X ConfigEntries :
            p[1].key # p[2].key /\ p[1].icon # p[2].icon}

\* manifest.icons: absent, or an object with optional base_dir and default
IconConfigs ==
    {Undefined}
    \cup {[t |-> "obj", base_dir |-> d[1], default |-> d[2], by_subparts |-> b] :
            d \in {<<Undefined, Undefined>>, <<JSStr(<<"x">>), JSStr(<<"d", ".", "g">>)>>},
            b \in BySubpartsSet}

NoIcon == [t |-> "none"]

(***************************************************************************)
(* Specification of normalizeSubparts as called on one raw value.          *)
(***************************************************************************)
IconsIdle ==
    /\ icons = Undefined
    /\ bySubparts = EmptyTable
    /\ feature = Undefined
    /\ icon = NoIcon
    /\ ipc = "idle"

ClampIdle ==
    /\ proposed = Undefined
    /\ clampBounds = <<>>
    /\ clampSource = "none"
    /\ clamped = Undefined
    /\ cpc = "idle"

TipIdle ==
    /\ picked = Undefined
    /\ pickedLayer = ""
    /\ tooltip = Undefined
    /\ tpc = "idle"

FmtIdle ==
    /\ tons = Undefined
    /\ tonsText = <<>>
    /\ fpc = "idle"

PageIdle ==
    /\ variant = "none"
    /\ maskExtension = FALSE
    /\ pc = "idle"
    /\ manifest = Undefined
    /\ log = <<>>
    /\ layers = <<>>
    /\ deck = "none"
    /\ app = "empty"
    /\ failure = "none"
    /\ viewState = Undefined
    /\ uncaught = FALSE
    /\ loaded = {}

NormIdle ==
    /\ subpartsIn = Undefined
    /\ key = <<>>
    /\ npc = "idle"

NormInit ==
    /\ subpartsIn \in SubpartValues
    /\ key = <<>>
    /\ npc = "init"
    /\ IconsIdle /\ ClampIdle /\ PageIdle /\ TipIdle /\ FmtIdle

NormalizeSubparts ==
    /\ npc = "init"
    /\ key' = normalizeSubparts(subpartsIn)
    /\ npc' = "done"
    /\ UNCHANGED <<subpartsIn, iconVars, clampVars, pageVars, tipVars, fmtVars>>

NormNext == NormalizeSubparts

SpecNormalize == NormInit /\ [][NormNext]_vars

(***************************************************************************)
(* Specification of the icon resolver: built once, then called.            *)
(***************************************************************************)
IconsInit ==
    /\ icons \in IconConfigs
    /\ bySubparts = EmptyTable
    /\ feature = Undefined
    /\ icon = NoIcon
    /\ ipc = "init"
    /\ NormIdle /\ ClampIdle /\ PageIdle /\ TipIdle /\ FmtIdle

\* buildFacilityIconResolver(manifest)
BuildFacilityIconResolver ==
    /\ ipc = "init"
    /\ bySubparts' = buildTable(bySubpartsRaw(icons), EmptyTable)
    /\ ipc' = "built"
    /\ UNCHANGED <<icons, feature, icon, normVars, clampVars, pageVars, tipVars, fmtVars>>

\* getIcon: the layer calls the resolver on one feature
GetFacilityIcon ==
    /\ ipc = "built"
    /\ \E f \in FeatureSet :
        /\ feature' = f
        /\ icon' = resolveIcon(icons, bySubparts, f)
    /\ ipc' = "resolved"
    /\ UNCHANGED <<icons, bySubparts, normVars, clampVars, pageVars, tipVars, fmtVars>>

\* the layer has consumed the descriptor; the resolver can be called again
IconConsumed ==
    /\ ipc = "resolved"
    /\ ipc' = "built"
    /\ feature' = Undefined
    /\ icon' = NoIcon
    /\ UNCHANGED <<icons, bySubparts, normVars, clampVars, pageVars, tipVars, fmtVars>>

IconsNext == BuildFacilityIconResolver \/ GetFacilityIcon \/ IconConsumed

SpecIcons == IconsInit /\ [][IconsNext]_vars

(***************************************************************************)
(* Specification of clampToVirginia as called on one proposed view state.  *)
(***************************************************************************)
\* bounds = [-83.68, 36.54, -75.17, 39.47]
VirginiaBounds == <<-8368, 3654, -7517, 3947>>

\* manifest bounds with minLon < maxLon and minLat < maxLat
BoundsSet == {VirginiaBounds, <<-100, -50, 100, 50>>}

\* numbers around the two limits, far outside them, and the values
\* -60, 20 and 50 of the end-to-end scenario
NumbersAround(lo, hi) ==
    ((lo - Reach)..(lo + Reach)) \cup ((hi - Reach)..(hi + Reach))
    \cup {-18000, -6000, 2000, 5000, 18000}

\* a field that is missing, null or not a number
Malformed == {Undefined, Null, NaN, JSStr(<<"x">>)}

FieldValues(lo, hi) == {JSNum(i) : i \in NumbersAround(lo, hi)} \cup Malformed

\* the view states the engine, or a careless caller, can propose
ProposedViews(source, b) ==
    LET pr == ClampProfile(source)
    IN [longitude : FieldValues(b[1] - pr.pad, b[3] + pr.pad),
        latitude : FieldValues(b[2] - pr.pad, b[4] + pr.pad),
        zoom : FieldValues(pr.minZoom, pr.maxZoom),
        pitch : {JSNum(0), JSNum(4500)},
        bearing : {JSNum(1800)},
        minZoom : {JSNum(pr.minZoom)},
        maxZoom : {JSNum(pr.maxZoom)},
        altitude : {JSNum(150)}]

ClampInit ==
    /\ \E source \in {"icon", "masked"}, b \in BoundsSet :
        /\ clampSource = source
        /\ clampBounds = b
        /\ proposed \in ProposedViews(source, b)
    /\ clamped = Undefined
    /\ cpc = "init"
    /\ NormIdle /\ IconsIdle /\ PageIdle /\ TipIdle /\ FmtIdle

\* onViewStateChange: ({viewState: next}) => clampToVirginia(next, manifest.bounds)
ClampToVirginia ==
    /\ cpc = "init"
    /\ clamped' = clampToVirginia(clampSource, proposed, clampBounds)
    /\ cpc' = "done"
    /\ UNCHANGED <<proposed, clampBounds, clampSource, normVars, iconVars, pageVars, tipVars, fmtVars>>

ClampNext == ClampToVirginia

SpecClamp == ClampInit /\ [][ClampNext]_vars

(***************************************************************************)
(* Specification of formatTons as called on one quantity.                  *)
(***************************************************************************)
\* quantities in tenths of a ton: a dense range around zero, values whose
\* rounding carries into a new group, and 1234567.4
TonsNumbers ==
    ((0 - MaxTenths)..MaxTenths)
    \cup {9994, 9995, 9999, 10000, 99995, 9999994, 9999995, 12345674, -12345}

\* ghg_quantity_metric_tons_co2e: missing, null, a number, or not a number
TonsValues == {Undefined, Null, NaN, JSStr(<<"x">>)} \cup {JSNum(n) : n \in TonsNumbers}

FmtInit ==
    /\ tons \in TonsValues
    /\ tonsText = <<>>
    /\ fpc = "init"
    /\ NormIdle /\ IconsIdle /\ ClampIdle /\ PageIdle /\ TipIdle

FormatTons ==
    /\ fpc = "init"
    /\ tonsText' = formatTons(tons)
    /\ fpc' = "done"
    /\ UNCHANGED <<tons, normVars, iconVars, clampVars, pageVars, tipVars>>

FmtNext == FormatTons

SpecFormat == FmtInit /\ [][FmtNext]_vars

(***************************************************************************)
(* Specification of getTooltip as called on one pick.                      *)
(***************************************************************************)
\* ids of the layers of the three entrypoints
LayerIds ==
    {"va-mask", "terrain", "boundary", "pipelines", "railroads", "primary-roads",
     "incorporated-places", "ports", "ghg-facilities"}

\* properties of a picked feature; a field that is missing reads undefined
PickedProperties ==
    [t : {"obj"},
     facility_name : {Undefined, JSStr(<<>>), JSStr(<<"F">>)},
     subparts : {Undefined, JSStr(<<"d", ",", " ", "c">>), JSNum(5)},
     ghg_quantity_metric_tons_co2e : {Undefined, Null, JSNum(0), JSNum(12345674), JSNum(-15)}]

\* the object of a pick: none, a feature without properties, a feature
PickedObjects ==
    {Undefined, Null, [t |-> "obj", properties |-> Undefined]}
    \cup {[t |-> "obj", properties |-> pp] : pp \in PickedProperties}

TipInit ==
    /\ picked \in PickedObjects
    /\ pickedLayer \in LayerIds
    /\ tooltip = Undefined
    /\ tpc = "init"
    /\ NormIdle /\ IconsIdle /\ ClampIdle /\ PageIdle /\ FmtIdle

GetTooltip ==
    /\ tpc = "init"
    /\ tooltip' = getTooltip(picked, pickedLayer)
    /\ tpc' = "done"
    /\ UNCHANGED <<picked, pickedLayer, normVars, iconVars, clampVars, pageVars, fmtVars>>

TipNext == GetTooltip

SpecTooltip == TipInit /\ [][TipNext]_vars

(***************************************************************************)
(* Specification of one load cycle of an entrypoint: load the manifest,    *)
(* pre-fetch feature collections, compose the layers, create the engine,   *)
(* then serve view-change events.  Each action is the code that runs       *)
(* between two awaits; a throw and the catch block that receives it are    *)
(* one step.                                                               *)
(***************************************************************************)
Variants == {"simple", "masked", "icon"}

\* the keys of manifest.files that the entrypoints read
FileKeys ==
    {"boundary", "pipelines", "railroads", "primary_roads", "incorporated_places",
     "principal_ports", "ghg"}

Arr(a) == [t |-> "arr", a |-> a]

\* manifests that parse: any of files, a files key, bounds, center and icons
\* may be missing; a center that is present lies within the bounds
Manifests ==
    [t : {"obj"},
     files : {Undefined} \cup {[t |-> "obj", keys |-> FileKeys \ missing] :
                                 missing \in {{}, {"ghg"}, {"pipelines"}}},
     bounds : {Undefined, Arr(VirginiaBounds)},
     center : {Undefined, Arr(<<-7850, 3750>>)},
     icons : {Undefined,
              [t |-> "obj", base_dir |-> Undefined, default |-> Undefined,
               by_subparts |-> <<[key |-> <<"D", ",", "c">>, icon |-> JSStr(<<"p">>)]>>]}]

\* how a fetch of loadJson or loadManifest settles: it resolves, it rejects,
\* the response is not ok, or the body does not parse
FetchOutcomes == {"ok", "rejected", "not ok", "bad json"}

ErrorOf(outcome) == IF outcome = "bad json" THEN "ParseError" ELSE "LoadError"

\* view states the controller proposes: inside, on and beyond the limits
LonProposals == {-9000, -8388, -7850, -7477, -6000}
LatProposals == {3000, 3750, 5000}
ZoomProposals == {500, 740, 1150, 1600}

EngineProposals(vs) ==
    {[vs EXCEPT !.longitude = JSNum(x), !.latitude = JSNum(y), !.zoom = JSNum(z)] :
        x \in LonProposals, y \in LatProposals, z \in ZoomProposals}

\* values the incomplete bearing literal of the icon variant may stand for
Bearings(v) == IF v = "icon" THEN {0, 1800} ELSE {1800}

Init ==
    /\ variant \in Variants
    /\ maskExtension \in BOOLEAN
    /\ pc = "start"
    /\ manifest = Undefined
    /\ log = <<>>
    /\ layers = <<>>
    /\ deck = "none"
    /\ app = "empty"
    /\ failure = "none"
    /\ viewState = Undefined
    /\ uncaught = FALSE
    /\ loaded = {}
    /\ NormIdle /\ IconsIdle /\ ClampIdle /\ TipIdle /\ FmtIdle

\* a catch block that only logs: console.error(error)
Catch_consoleOnly(error, lg) ==
    /\ pc' = "failed"
    /\ failure' = error
    /\ log' = lg
    /\ UNCHANGED <<layers, deck, app, viewState, uncaught>>

\* catch (error) { document.getElementById('app').innerHTML = ...error.message... }
Catch(error, lg) ==
    /\ pc' = "failed"
    /\ failure' = error
    /\ app' = "error"
    /\ log' = lg
    /\ UNCHANGED <<layers, deck, viewState, uncaught>>

\* the sequence suspends on the next await
Await(at, lg) ==
    /\ pc' = at
    /\ log' = lg
    /\ UNCHANGED <<layers, deck, app, failure, viewState, uncaught>>

\* const viewState = {...}; const layers = [...]; new DeckGL({...})
ComposeAndRender(m, lg) ==
    IF m.center = Undefined \/ m.files = Undefined
    THEN Catch("TypeError", lg)
    ELSE \E engine \in {"ok", "throws"}, b \in Bearings(variant) :
            IF engine = "throws"
            THEN /\ pc' = "failed"
                 /\ failure' = "EngineError"
                 /\ app' = "error"
                 /\ log' = lg \o <<"layers">>
                 /\ layers' = composeLayers(variant, m, maskExtension)
                 /\ UNCHANGED <<deck, viewState, uncaught>>
            ELSE /\ pc' = "rendered"
                 /\ layers' = composeLayers(variant, m, maskExtension)
                 /\ viewState' = initialViewState(variant, m, b)
                 /\ deck' = "created"
                 /\ app' = "map"
                 /\ log' = lg \o <<"layers", "deck">>
                 /\ UNCHANGED <<failure, uncaught>>

\* the entrypoint starts: loadManifest() issues its fetch
Start ==
    /\ pc = "start"
    /\ Await("awaitManifest", Append(log, "fetch manifest"))
    /\ UNCHANGED <<variant, maskExtension, manifest, loaded, normVars, iconVars, clampVars, tipVars, fmtVars>>

\* a sequence that requests the manifest a second time when the first
\* request fails
ManifestSettled_retry ==
    /\ pc = "awaitManifest"
    /\ \E outcome \in FetchOutcomes :
        IF outcome # "ok"
        THEN /\ IF Len(log) < 2
                THEN Await("awaitManifest", Append(log, "fetch manifest"))
                ELSE Catch(ErrorOf(outcome), log)
             /\ UNCHANGED <<manifest, loaded>>
        ELSE \E m \in Manifests :
            /\ manifest' = m
            /\ loaded' = loaded \cup {"manifest"}
            /\ IF variant = "simple" THEN ComposeAndRender(m, log)
               ELSE IF m.files = Undefined THEN Catch("TypeError", log)
               ELSE Await("awaitGhg", Append(log, "fetch ghg"))
    /\ UNCHANGED <<variant, maskExtension, normVars, iconVars, clampVars, tipVars, fmtVars>>

\* the manifest fetch settles
ManifestSettled ==
    /\ pc = "awaitManifest"
    /\ \E outcome \in FetchOutcomes :
        IF outcome # "ok"
        THEN Catch(ErrorOf(outcome), log) /\ UNCHANGED <<manifest, loaded>>
        ELSE \E m \in Manifests :
            /\ manifest' = m
            /\ loaded' = loaded \cup {"manifest"}
            /\ IF variant = "simple" THEN ComposeAndRender(m, log)
               ELSE IF m.files = Undefined THEN Catch("TypeError", log)
               ELSE Await("awaitGhg", Append(log, "fetch ghg"))
    /\ UNCHANGED <<variant, maskExtension, normVars, iconVars, clampVars, tipVars, fmtVars>>

\* a sequence that composes the layers as soon as the facility collection
\* has loaded, in the icon variant too
GhgSettled_composeEarly ==
    /\ pc = "awaitGhg"
    /\ \E outcome \in FetchOutcomes :
        IF outcome # "ok" THEN Catch(ErrorOf(outcome), log) /\ UNCHANGED loaded
        ELSE /\ loaded' = loaded \cup {"ghg"}
             /\ ComposeAndRender(manifest, log)
    /\ UNCHANGED <<variant, maskExtension, manifest, normVars, iconVars, clampVars, tipVars, fmtVars>>

\* the fetch of the facility collection settles (masked and icon variants)
GhgSettled ==
    /\ pc = "awaitGhg"
    /\ \E outcome \in FetchOutcomes :
        IF outcome # "ok" THEN Catch(ErrorOf(outcome), log) /\ UNCHANGED loaded
        ELSE /\ loaded' = loaded \cup {"ghg"}
             /\ IF variant = "masked" THEN ComposeAndRender(manifest, log)
                ELSE Await("awaitBoundary", Append(log, "fetch boundary"))
    /\ UNCHANGED <<variant, maskExtension, manifest, normVars, iconVars, clampVars, tipVars, fmtVars>>

\* the fetch of the boundary collection settles (icon variant): the resolver
\* is built, then the layers are composed and the engine is created
BoundarySettled ==
    /\ pc = "awaitBoundary"
    /\ \E outcome \in FetchOutcomes :
        IF outcome # "ok"
        THEN Catch(ErrorOf(outcome), log) /\ UNCHANGED <<iconVars, loaded>>
        ELSE /\ loaded' = loaded \cup {"boundary"}
             /\ icons' = manifest.icons
             /\ bySubparts' = buildTable(bySubpartsRaw(manifest.icons), EmptyTable)
             /\ ipc' = "built"
             /\ UNCHANGED <<feature, icon>>
             /\ ComposeAndRender(manifest, Append(log, "resolver"))
    /\ UNCHANGED <<variant, maskExtension, manifest, normVars, clampVars, tipVars, fmtVars>>

\* the controller reports a view change; the engine keeps what the
\* onViewStateChange callback returns, or the proposed state without one
ViewStateChange ==
    /\ pc = "rendered"
    /\ \E next \in EngineProposals(viewState) :
        IF hasOnViewStateChange(variant)
        THEN IF manifest.bounds = Undefined
             THEN uncaught' = TRUE /\ UNCHANGED viewState
             ELSE /\ viewState' = clampToVirginia(variant, next, manifest.bounds.a)
                  /\ UNCHANGED uncaught
        ELSE viewState' = next /\ UNCHANGED uncaught
    /\ UNCHANGED <<variant, maskExtension, pc, manifest, log, layers, deck, app, failure,
                   loaded, normVars, iconVars, clampVars, tipVars, fmtVars>>

Next == Start \/ ManifestSettled \/ GhgSettled \/ BoundarySettled \/ ViewStateChange

Spec == Init /\ [][Next]_vars

(***************************************************************************)
(* Properties of normalizeSubparts and of the resolver.                    *)
(***************************************************************************)
\* the codes a raw subpart list names, whatever their order, case, padding
\* or repetition
PartSet(s) ==
    LET parts == split(s)
    IN {toUpperCase(trim(parts[i])) : i \in 1..Len(parts)} \ {<<>>}

\* C1: every raw string that names the same codes as the one normalized,
\* differing only in order, letter case, surrounding whitespace or repeated
\* parts, normalizes to the identical canonical key.
C1_SameKeyForEveryVariant ==
    (npc = "done" /\ subpartsIn.t = "str") =>
        \A v \in Strings(MaxLen) :
            PartSet(v) = PartSet(subpartsIn.s) => normalizeSubparts(JSStr(v)) = key

\* indices of the by_subparts entries whose normalized key is k
matching(cfg, k) ==
    {i \in 1..Len(bySubpartsRaw(cfg)) :
        normalizeSubparts(JSStr(bySubpartsRaw(cfg)[i].key)) = k}

Last(S) == CHOOSE i \in S : \A j \in S : j <= i

\* C2: the resolver never raises; it returns the descriptor of the configured
\* by_subparts entry whose normalized key equals the facility's normalized
\* subparts (the last one in the configuration when two raw keys normalize
\* alike), and the default descriptor when there is no such entry.
C2_ResolveConfiguredOrDefault ==
    ipc = "resolved" =>
        LET k == normalizeSubparts(featureSubparts(feature))
            m == matching(icons, k)
        IN /\ icon # TypeError
           /\ m # {} => icon = Descriptor(iconsBaseDir(icons),
                                iconNameToFile(bySubpartsRaw(icons)[Last(m)].icon))
           /\ m = {} => icon = Descriptor(iconsBaseDir(icons), defaultIconFile(icons))

\* a facility whose raw subparts differ from the raw configured key resolves
\* to that entry's icon, not to the default
C2_Witness ==
    /\ ipc = "resolved"
    /\ feature.t = "obj" /\ feature.properties.t = "obj"
    /\ feature.properties.subparts = JSStr(<<"c", ",", "D">>)
    /\ icons.t = "obj" /\ Len(icons.by_subparts) = 1
    /\ icons.by_subparts[1] = [key |-> <<"D", ",", "c">>, icon |-> JSStr(<<"p">>)]
    /\ icon.url = <<".", ".", "/", "g", "/", "p", ".", "p">>

(***************************************************************************)
(* Properties of the load cycle.                                           *)
(***************************************************************************)
\* positions of the layer with the given id in the composed list
IndexOf(id) == {i \in 1..Len(layers) : layers[i].id = id}

\* C4: in every composed layer list, of every entrypoint, the mask layer
\* 'va-mask' (when present) comes before the 'terrain' layer, and the
\* 'terrain' layer comes before the 'boundary' outline layer.
C4_MaskBeforeTerrainBeforeBoundary ==
    layers # <<>> =>
        /\ IndexOf("terrain") # {} /\ IndexOf("boundary") # {}
        /\ \A i \in IndexOf("va-mask"), j \in IndexOf("terrain") : i < j
        /\ \A i \in IndexOf("terrain"), j \in IndexOf("boundary") : i < j

\* the icon variant has rendered a list that holds all three layers
C4_Witness ==
    /\ pc = "rendered"
    /\ variant = "icon"
    /\ IndexOf("va-mask") = {1}
    /\ IndexOf("terrain") = {2}
    /\ IndexOf("boundary") = {3}

InRange(v, lo, hi) == v.t = "num" /\ lo <= v.n /\ v.n <= hi

\* a loaded manifest that lacks bounds, center, files or a files key
Incomplete(m) ==
    /\ m.t = "obj"
    /\ \/ m.bounds = Undefined
       \/ m.center = Undefined
       \/ m.files = Undefined
       \/ m.files.keys # FileKeys

\* C5: once a manifest has loaded that lacks bounds, center or a required
\* files key, no DeckGL instance is created from it and no map is shown:
\* the sequence ends in the error surface before the engine is initialised.
C5_NoEngineFromIncompleteManifest ==
    Incomplete(manifest) =>
        /\ deck = "none"
        /\ app # "map"
        /\ pc # "rendered"

ViewLimits(v) ==
    IF v = "simple" THEN [pad |-> 40, minZoom |-> 500, maxZoom |-> 1600]
    ELSE ClampProfile(v)

\* C7: in every entrypoint, after any sequence of view-change events, the
\* renderer holds a longitude and latitude within the padded manifest bounds
\* and a zoom within [minZoom, maxZoom].
C7_RendererHoldsConstrainedView ==
    (pc = "rendered" /\ manifest.bounds # Undefined) =>
        LET b == manifest.bounds.a
            lim == ViewLimits(variant)
        IN /\ InRange(viewState.longitude, b[1] - lim.pad, b[3] + lim.pad)
           /\ InRange(viewState.latitude, b[2] - lim.pad, b[4] + lim.pad)
           /\ InRange(viewState.zoom, lim.minZoom, lim.maxZoom)

(***************************************************************************)
(* Properties of clampToVirginia.                                          *)
(***************************************************************************)
\* C3: for every proposed view state, malformed ones included, and valid
\* bounds, the returned longitude lies within [minLon - pad, maxLon + pad],
\* the latitude within [minLat - pad, maxLat + pad] and the zoom within
\* [minZoom, maxZoom].
C3_ClampedWithinLimits ==
    cpc = "done" =>
        LET pr == ClampProfile(clampSource)
        IN /\ InRange(clamped.longitude, clampBounds[1] - pr.pad, clampBounds[3] + pr.pad)
           /\ InRange(clamped.latitude, clampBounds[2] - pr.pad, clampBounds[4] + pr.pad)
           /\ InRange(clamped.zoom, pr.minZoom, pr.maxZoom)

\* the nearest point of [lo, hi] to x
Nearest(x, lo, hi) == IF x > hi THEN hi ELSE IF x < lo THEN lo ELSE x

Saturated(in, out, lo, hi) == in.t = "num" => out = JSNum(Nearest(in.n, lo, hi))

\* C10: a numeric longitude, latitude or zoom above its upper limit comes
\* back as exactly that limit, one below its lower limit as exactly the
\* lower limit, one inside the range unchanged; with the Virginia bounds
\* the view (-60, 50, zoom 20) comes back as (-75.17 + pad, 39.47 + pad,
\* maxZoom).
C10_SaturatesAtNearestLimit ==
    cpc = "done" =>
        LET pr == ClampProfile(clampSource)
        IN /\ Saturated(proposed.longitude, clamped.longitude,
                        clampBounds[1] - pr.pad, clampBounds[3] + pr.pad)
           /\ Saturated(proposed.latitude, clamped.latitude,
                        clampBounds[2] - pr.pad, clampBounds[4] + pr.pad)
           /\ Saturated(proposed.zoom, clamped.zoom, pr.minZoom, pr.maxZoom)
           /\ ( /\ clampBounds = VirginiaBounds
                /\ proposed.longitude = JSNum(-6000)
                /\ proposed.latitude = JSNum(5000)
                /\ proposed.zoom = JSNum(2000) )
              => /\ clamped.longitude = JSNum(-7517 + pr.pad)
                 /\ clamped.latitude = JSNum(3947 + pr.pad)
                 /\ clamped.zoom = JSNum(pr.maxZoom)

\* the end-to-end scenario under the icon variant's profile
C10_Witness ==
    /\ cpc = "done"
    /\ clampSource = "icon"
    /\ clampBounds = VirginiaBounds
    /\ proposed.longitude = JSNum(-6000)
    /\ proposed.latitude = JSNum(5000)
    /\ proposed.zoom = JSNum(2000)
    /\ clamped.longitude = JSNum(-7497)
    /\ clamped.latitude = JSNum(3967)
    /\ clamped.zoom = JSNum(1150)

(***************************************************************************)
(* Properties of the tooltip.                                              *)
(***************************************************************************)
\* the property of the picked object, undefined when the object has no
\* properties at all
PickedProp(name) ==
    IF picked.properties.t = "obj" THEN picked.properties[name] ELSE Undefined

\* C8: getTooltip returns null when no object is picked; for a pick on
\* 'ghg-facilities' it returns structured content with the facility name
\* ("Facility" if absent), the subparts as reported ("N/A" if absent) and the
\* formatted quantity, also when the object has no properties; for a pick on
\* any other layer it returns that layer's id as plain text.
C8_TooltipByLayer ==
    tpc = "done" =>
        /\ picked.t # "obj" => tooltip = Null
        /\ (picked.t = "obj" /\ pickedLayer # "ghg-facilities")
              => tooltip = [t |-> "text", text |-> pickedLayer]
        /\ (picked.t = "obj" /\ pickedLayer = "ghg-facilities")
              => /\ tooltip.t = "html"
                 /\ tooltip.html[2] =
                      (IF PickedProp("facility_name") \in {Undefined, JSStr(<<>>)}
                       THEN <<"Facility">>
                       ELSE PickedProp("facility_name").s)
                 /\ tooltip.html[4] =
                      (CASE PickedProp("subparts") = Undefined -> <<"N/A">>
                         [] PickedProp("subparts") = JSNum(5) -> <<"5">>
                         [] OTHER -> PickedProp("subparts").s)
                 /\ tooltip.html[6] = formatTons(PickedProp("ghg_quantity_metric_tons_co2e"))

\* a facility without properties is picked
C8_Witness ==
    /\ tpc = "done"
    /\ picked = [t |-> "obj", properties |-> Undefined]
    /\ pickedLayer = "ghg-facilities"
    /\ tooltip.t = "html"
    /\ tooltip.html = << "<strong>", <<"Facility">>, "</strong><br/>Subparts: ", <<"N/A">>,
                         "<br/>GHG: ", <<"0">>, " tCO2e" >>

\* value of a string of decimal digits
RECURSIVE DigitsValue(_)
DigitsValue(ds) ==
    IF ds = <<>> THEN 0
    ELSE 10 * DigitsValue(SubSeq(ds, 1, Len(ds) - 1))
         + (CHOOSE d \in 0..9 : DigitChar[d + 1] = ds[Len(ds)])

\* text is a whole number of the given magnitude (in tenths) rounded to the
\* nearest integer, written without decimals and with a comma exactly before
\* every group of three digits
WholeGrouped(text, mag) ==
    LET ds == SelectSeq(text, LAMBDA ch : ch # ",")
    IN /\ text # <<>>
       /\ \A i \in 1..Len(text) :
            /\ text[i] \in {DigitChar[d] : d \in 1..10} \cup {","}
            /\ text[i] = "," <=> (Len(text) - i + 1) % 4 = 0
       /\ text[1] # ","
       /\ Len(ds) > 1 => ds[1] # "0"
       /\ 10 * DigitsValue(ds) - mag \in -5..5

\* C9: formatTons writes "0" for a missing, undefined or null quantity, and
\* a numeric quantity as its value rounded to an integer, with zero decimal
\* places and comma grouping (a minus sign first when it is negative);
\* 1234567.4 is written "1,234,567".
C9_FormatTonsGroupedInteger ==
    fpc = "done" =>
        /\ tons \in {Undefined, Null} => tonsText = <<"0">>
        /\ (tons.t = "num" /\ tons.n >= 0) => WholeGrouped(tonsText, tons.n)
        /\ (tons.t = "num" /\ tons.n < 0) =>
              /\ Head(tonsText) = "-"
              /\ WholeGrouped(Tail(tonsText), 0 - tons.n)
        /\ tons = JSNum(12345674) =>
              tonsText = <<"1", ",", "2", "3", "4", ",", "5", "6", "7">>

\* a quantity whose rounding carries into a new group: 999999.5
C9_Witness ==
    /\ fpc = "done"
    /\ tons = JSNum(9999995)
    /\ tonsText = <<"1", ",", "0", "0", "0", ",", "0", "0", "0">>

(***************************************************************************)
(* Properties of the layer order and of the order of the load steps.       *)
(***************************************************************************)
\* the one fixed order of the layer ids
FixedOrder ==
    << "va-mask", "terrain", "boundary", "pipelines", "railroads", "primary-roads",
       "incorporated-places", "ports", "ghg-facilities" >>

LayerIdsOf(ls) == [i \in 1..Len(ls) |-> ls[i].id]

\* C11: every composed layer list is the fixed order mask (if present),
\* terrain, boundary, pipelines, railroads, primary roads, incorporated
\* places, ports, facility overlay, with no layer left out but the mask and
\* the facility overlay last.
C11_LayersInFixedOrder ==
    layers # <<>> =>
        /\ \/ LayerIdsOf(layers) = FixedOrder
           \/ LayerIdsOf(layers) = Tail(FixedOrder)
        /\ layers[Len(layers)].id = "ghg-facilities"

\* the simple variant has rendered its eight layers, the facilities last
C11_Witness ==
    /\ pc = "rendered"
    /\ variant = "simple"
    /\ Len(layers) = 8
    /\ layers[4].id = "railroads"
    /\ layers[8].id = "ghg-facilities"

\* number of times a step occurs in a log
Count(step, lg) == Cardinality({i \in 1..Len(lg) : lg[i] = step})

\* positions of a step in a log
Steps(step, lg) == {i \in 1..Len(lg) : lg[i] = step}

\* the feature collections an entrypoint fetches itself before composing
PrefetchedBy(v) ==
    IF v = "icon" THEN {"ghg", "boundary"}
    ELSE IF v = "masked" THEN {"ghg"}
    ELSE {}

\* C12: within one load cycle no feature-collection fetch starts before the
\* manifest has loaded, the icon resolver is built at most once and only with
\* the manifest loaded (exactly once before the icon variant composes), the
\* layer list is composed only after every pre-fetched collection has loaded,
\* and the engine is initialised only after the layer list is complete.
C12_StepsInOrder ==
    /\ (Steps("fetch ghg", log) \cup Steps("fetch boundary", log)) # {}
            => "manifest" \in loaded /\ manifest # Undefined
    /\ Count("resolver", log) <= 1
    /\ Steps("resolver", log) # {} => "manifest" \in loaded
    /\ (variant = "icon" /\ Steps("layers", log) # {}) =>
            /\ Count("resolver", log) = 1
            /\ \A i \in Steps("resolver", log), j \in Steps("layers", log) : i < j
    /\ Steps("layers", log) # {} => ({"manifest"} \cup PrefetchedBy(variant)) \subseteq loaded
    /\ layers # <<>> => Steps("layers", log) # {}
    /\ deck = "created" <=> Steps("deck", log) # {}
    /\ Steps("deck", log) # {} =>
            /\ Len(layers) \in {8, 9}
            /\ \A i \in Steps("layers", log), j \in Steps("deck", log) : i < j

\* the icon variant has gone through every step of its cycle
C12_Witness ==
    /\ variant = "icon"
    /\ deck = "created"
    /\ loaded = {"manifest", "ghg", "boundary"}
    /\ log = <<"fetch manifest", "fetch ghg", "fetch boundary", "resolver", "layers", "deck">>

\* C13: no fetch is retried: the manifest and each pre-fetched collection
\* are requested at most once in a cycle, and once a failure has been caught
\* no step changes the log, the fetched resources, the layer list, the
\* engine or the position of the sequence.
C13_NoRetryAfterFailure ==
    [][ /\ \A f \in {"fetch manifest", "fetch ghg", "fetch boundary"} : Count(f, log') <= 1
        /\ failure # "none" =>
                /\ log' = log
                /\ loaded' = loaded
                /\ manifest' = manifest
                /\ layers' = layers
                /\ deck' = deck
                /\ pc' = pc
                /\ failure' = failure ]_vars

\* the manifest request has failed and the cycle has stopped there
C13_Witness ==
    /\ pc = "failed"
    /\ failure = "LoadError"
    /\ log = <<"fetch manifest">>
    /\ loaded = {}
    /\ deck = "none"
    /\ layers = <<>>

(***************************************************************************)
(* Properties of masking.                                                  *)
(***************************************************************************)
\* C14: the mask layer va-mask is in the composed list only if the masking
\* capability (MaskExtension) is available, and the terrain layer is clipped
\* to the mask only when a mask layer is present.
C14_MaskOnlyWithCapability ==
    layers # <<>> =>
        /\ IndexOf("va-mask") # {} => maskExtension
        /\ \A i \in IndexOf("terrain") :
                layers[i].maskId = "va-mask" => IndexOf("va-mask") # {}

(***************************************************************************)
(* Properties of the quantity shown for a facility.                        *)
(***************************************************************************)
\* C15: the tooltip of a facility whose ghg_quantity_metric_tons_co2e is
\* negative shows the quantity text of a facility whose quantity is null or
\* missing, "0".
C15_NegativeQuantityShownAsZero ==
    ( /\ tpc = "done"
      /\ picked.t = "obj"
      /\ pickedLayer = "ghg-facilities"
      /\ PickedProp("ghg_quantity_metric_tons_co2e").t = "num"
      /\ PickedProp("ghg_quantity_metric_tons_co2e").n < 0 )
    => /\ tooltip.html[6] = formatTons(Null)
       /\ tooltip.html[6] = formatTons(Undefined)
       /\ tooltip.html[6] = <<"0">>

(***************************************************************************)
(* Properties of the icon filenames and of the canonical key.              *)
(***************************************************************************)
\* the filename the inference rule gives a configured name: the name itself
\* when it contains a dot, the name with the extension appended otherwise
Inferred(name) ==
    LET n == JSString(name)
    IN IF \E i \in 1..Len(n) : n[i] = "." THEN n ELSE n \o <<".", "p">>

\* C16: every configured icon name that contains a dot is used verbatim as
\* the filename and every name without a dot gets the one fixed extension
\* appended; the rule is the same for the by_subparts entries and for the
\* default icon name.
C16_FilenameInferredFromName ==
    ipc \in {"built", "resolved"} =>
        /\ \A k \in DOMAIN bySubparts :
                bySubparts[k] = Inferred(bySubpartsRaw(icons)[Last(matching(icons, k))].icon)
        /\ defaultIconFile(icons) = Inferred(defaultIconName(icons))

\* C17: normalizeSubparts is idempotent: the canonical key of any input,
\* handed to normalizeSubparts as a subparts string, comes back unchanged.
C17_NormalizeIdempotent ==
    npc = "done" => normalizeSubparts(JSStr(key)) = key

\* an input that is not its own canonical key has been normalized
C17_Witness ==
    /\ npc = "done"
    /\ subpartsIn = JSStr(<<"D", ",", "c">>)
    /\ key = <<"C", ",", "D">>
    /\ normalizeSubparts(JSStr(key)) = <<"C", ",", "D">>

(***************************************************************************)
(* Frame of clampToVirginia.                                               *)
(***************************************************************************)
\* the fields clampToVirginia writes
ClampedFields == {"longitude", "latitude", "zoom"}

\* C18: clampToVirginia changes only longitude, latitude and zoom: the view
\* state it returns has the fields of the proposed one, and pitch, bearing,
\* minZoom, maxZoom and any extra field keep their values; the call changes
\* neither the proposed view state nor the bounds array.
C18_ClampChangesOnlyThreeFields ==
    /\ [](cpc = "done" =>
            /\ DOMAIN clamped = DOMAIN proposed
            /\ \A f \in DOMAIN proposed \ ClampedFields : clamped[f] = proposed[f]
            /\ {"pitch", "bearing", "minZoom", "maxZoom", "altitude"}
                    \subseteq DOMAIN proposed \ ClampedFields)
    /\ [][proposed' = proposed /\ clampBounds' = clampBounds]_vars

\* a tilted view far to the west came back moved, with its tilt and its
\* extra field as they were
C18_Witness ==
    /\ cpc = "done"
    /\ clampSource = "masked"
    /\ proposed.longitude = JSNum(-18000)
    /\ clamped.longitude # proposed.longitude
    /\ proposed.pitch = JSNum(4500)
    /\ clamped.pitch = JSNum(4500)
    /\ clamped.altitude = JSNum(150)

\* C19: a facility whose subparts is missing, empty, or made only of commas
\* and whitespace has the empty canonical key and resolves to the default
\* descriptor, unless by_subparts holds a raw key whose canonical form is
\* empty too, with a non-empty icon filename: then that entry's icon is
\* returned.  (No filename of the table is ever empty.)
C19_EmptyKeyResolves ==
    /\ ipc \in {"built", "resolved"} => \A k \in DOMAIN bySubparts : bySubparts[k] # <<>>
    /\ (ipc = "resolved" /\ normalizeSubparts(featureSubparts(feature)) = <<>>) =>
            LET e == matching(icons, <<>>)
            IN IF e # {}
               THEN /\ <<>> \in DOMAIN bySubparts
                    /\ icon = Descriptor(iconsBaseDir(icons), bySubparts[<<>>])
                    /\ bySubparts[<<>>] = iconNameToFile(bySubpartsRaw(icons)[Last(e)].icon)
               ELSE icon = Descriptor(iconsBaseDir(icons), defaultIconFile(icons))

\* a facility whose subparts is blanks and a comma resolves to the icon
\* configured under the raw key ","
C19_Witness ==
    /\ ipc = "resolved"
    /\ feature.t = "obj" /\ feature.properties.t = "obj"
    /\ feature.properties.subparts = JSStr(<<" ", ",", " ">>)
    /\ icons.t = "obj" /\ Len(icons.by_subparts) = 1
    /\ icons.by_subparts[1] = [key |-> <<",">>, icon |-> JSStr(<<"p">>)]
    /\ icons.default = Undefined
    /\ icon.url = <<".", ".", "/", "g", "/", "p", ".", "p">>

====
